---- MODULE Spec2Model ----
(***************************************************************************)
(* Model of mytrade.py, a Streamlit dashboard script.                      *)
(*                                                                         *)
(* The script is run top to bottom once per session event (page visit or   *)
(* button press).  load_data() is memoised by st.cache_data(ttl=600): one  *)
(* cache object per function, shared by all sessions, replaced by a new    *)
(* empty object on st.cache_data.clear(), guarded by a per-key compute     *)
(* lock with a second read under the lock.                                 *)
(*                                                                         *)
(* Cell texts are sequences of one-character strings, so that parsing is   *)
(* computed and not assumed.  Amounts are integers.  Column headers are    *)
(* taken as already matching their stripped names (line 24).               *)
(***************************************************************************)
EXTENDS Integers, Sequences, FiniteSets, TLC

VARIABLES now, sheet, srcUp, gen, caches, pc, sgen, df, err, shown, footerTs,
          metrics, via, burst

vars == <<now, sheet, srcUp, gen, caches, pc, sgen, df, err, shown, footerTs,
          metrics, via, burst>>

\* ------------------------------------------------------------------ bounds
MaxRows == 2
MaxTime == 900
MaxRefresh == 2
MaxBurst == 2

\* ------------------------------------------------------- program constants
TTL == 600

\* the clock moves in steps of half a TTL
TickStep == TTL \div 2

Sessions == {"s1", "s2"}

\* --------------------------------------------------------------- cell texts
DigitSeq == <<"0", "1", "2", "3", "4", "5", "6", "7", "8", "9">>
Digits == {DigitSeq[i] : i \in 1..10}
DigitVal(c) == (CHOOSE i \in 1..10 : DigitSeq[i] = c) - 1

\* pandas.read_csv default na_values (those the model's texts can spell)
NaValues == { <<>>, <<"N", "/", "A">>, <<"N", "A">>, <<"n", "a", "n">> }

\* A cell after read_csv: a missing value for an NA text, else the text.
ReadCsvCell(t) == IF t \in NaValues THEN [na |-> TRUE, text |-> <<>>]
                  ELSE [na |-> FALSE, text |-> t]

\* month abbreviation -> <<month number, days in that month of 1900,
\*                          days of 1900 before the month>>
MonthTable == [ Jan |-> <<1, 31, 0>>,    Feb |-> <<2, 28, 31>>,
                Mar |-> <<3, 31, 59>>,   Apr |-> <<4, 30, 90>>,
                May |-> <<5, 31, 120>>,  Jun |-> <<6, 30, 151>>,
                Jul |-> <<7, 31, 181>>,  Aug |-> <<8, 31, 212>>,
                Sep |-> <<9, 30, 243>>,  Oct |-> <<10, 31, 273>>,
                Nov |-> <<11, 30, 304>>, Dec |-> <<12, 31, 334>> ]

MonthName(t) ==
  IF Len(t) # 3 THEN ""
  ELSE CASE t = <<"J", "a", "n">> -> "Jan" [] t = <<"F", "e", "b">> -> "Feb"
         [] t = <<"M", "a", "r">> -> "Mar" [] t = <<"A", "p", "r">> -> "Apr"
         [] t = <<"M", "a", "y">> -> "May" [] t = <<"J", "u", "n">> -> "Jun"
         [] t = <<"J", "u", "l">> -> "Jul" [] t = <<"A", "u", "g">> -> "Aug"
         [] t = <<"S", "e", "p">> -> "Sep" [] t = <<"O", "c", "t">> -> "Oct"
         [] t = <<"N", "o", "v">> -> "Nov" [] t = <<"D", "e", "c">> -> "Dec"
         [] OTHER -> ""

\* number of leading digits of t, at most k
RECURSIVE LeadDigits(_, _)
LeadDigits(t, k) ==
  IF k = 0 \/ t = <<>> \/ Head(t) \notin Digits THEN 0
  ELSE 1 + LeadDigits(Tail(t), k - 1)

RECURSIVE LeadSpaces(_)
LeadSpaces(t) ==
  IF t = <<>> \/ Head(t) # " " THEN 0 ELSE 1 + LeadSpaces(Tail(t))

RECURSIVE DigitsValue(_)
DigitsValue(t) ==
  IF t = <<>> THEN 0 ELSE DigitsValue(SubSeq(t, 1, Len(t) - 1)) * 10 + DigitVal(t[Len(t)])

NaT == [nat |-> TRUE, ord |-> 0]
DateError == [nat |-> FALSE, ord |-> -1]

\* strptime with "%d %b": one or two digits (day 1..31), white space, a month
\* abbreviation, nothing after; the year defaults to 1900 and the day must
\* exist in that month.  ord is the day of the year.
Strptime(t) ==
  LET nd   == LeadDigits(t, 2)
      day  == DigitsValue(SubSeq(t, 1, nd))
      r1   == SubSeq(t, nd + 1, Len(t))
      ns   == LeadSpaces(r1)
      mon  == MonthName(SubSeq(r1, ns + 1, Len(r1)))
  IN IF nd = 0 \/ day < 1 \/ day > 31 \/ ns = 0 \/ mon = "" THEN DateError
     ELSE IF day > MonthTable[mon][2] THEN DateError
     ELSE [nat |-> FALSE, ord |-> MonthTable[mon][3] + day]

\* pd.to_datetime(cell, format="%d %b"): a missing value passes as NaT,
\* any other text goes through strptime and raises when it does not parse
ToDatetime(c) == IF c.na THEN NaT ELSE Strptime(c.text)

\* ---------------------------------------------------------------- numbers
\* a float cell: a number, NaN, or the exception to_numeric raised instead
NaN == [nan |-> TRUE, v |-> 0, raised |-> FALSE]
Num(n) == [nan |-> FALSE, v |-> n, raised |-> FALSE]
ParseError == [nan |-> TRUE, v |-> 0, raised |-> TRUE]

\* .astype(str): a missing value prints as "nan"
AsStr(c) == IF c.na THEN <<"n", "a", "n">> ELSE c.text

\* .str.replace(",", "")
RECURSIVE StrReplaceComma(_)
StrReplaceComma(t) ==
  IF t = <<>> THEN <<>>
  ELSE IF Head(t) = "," THEN StrReplaceComma(Tail(t))
  ELSE <<Head(t)>> \o StrReplaceComma(Tail(t))

AllDigits(t) == t # <<>> /\ \A i \in 1..Len(t) : t[i] \in Digits

\* the value of an integer text (optional sign, then digits); NaN for "nan"
\* and for the empty text; else no number
ParseNumber(t, otherwise) ==
  IF t # <<>> /\ Head(t) = "-" /\ AllDigits(Tail(t)) THEN Num(0 - DigitsValue(Tail(t)))
  ELSE IF t # <<>> /\ Head(t) = "+" /\ AllDigits(Tail(t)) THEN Num(DigitsValue(Tail(t)))
  ELSE IF AllDigits(t) THEN Num(DigitsValue(t))
  ELSE IF t = <<>> \/ t = <<"n", "a", "n">> THEN NaN
  ELSE otherwise

\* pd.to_numeric(text, errors="coerce"): what does not parse becomes NaN
ToNumericRaising(t) == ParseNumber(t, ParseError)
ToNumeric(t) == ParseNumber(t, NaN)

\* .fillna(0)
FillNa(x) == IF x.nan /\ ~x.raised THEN Num(0) ELSE x

\* line 32 for one cell
CleanNumber(t) == FillNa(ToNumeric(StrReplaceComma(AsStr(ReadCsvCell(t)))))

\* ---------------------------------------------------------------- load_data
\* lines 27 and 31-32 for row i of the sheet; src is the row's place in the
\* source, kept to tell rows apart after the sort
ParseRow(sh, i) ==
  [ date |-> ToDatetime(ReadCsvCell(sh[i].date)),
    mi   |-> CleanNumber(sh[i].mi),
    gl   |-> CleanNumber(sh[i].gl),
    mo   |-> CleanNumber(sh[i].mo),
    om   |-> CleanNumber(sh[i].om),
    src  |-> i ]

\* the order sort_values("date") puts two dates in: ascending, NaT last
DateLe(a, b) == b.nat \/ (~a.nat /\ a.ord <= b.ord)

Perms(n) == { p \in [1..n -> 1..n] : \A i, j \in 1..n : i # j => p[i] # p[j] }

\* df.sort_values("date").reset_index(drop=True) with the default
\* kind="quicksort", which does not promise an order among equal dates: every
\* arrangement that is ascending by date is a possible result
SortValues(recs) ==
  LET n == Len(recs)
  IN { [i \in 1..n |-> recs[p[i]]] : p \in
        { q \in Perms(n) : \A i, j \in 1..n : i < j =>
              DateLe(recs[q[i]].date, recs[q[j]].date) } }

Raised(e) == [ok |-> FALSE, error |-> e, data |-> <<>>]
Returned(ds) == [ok |-> TRUE, error |-> "", data |-> ds]

\* the body of load_data (lines 23-34) on the sheet the source serves: the
\* set of possible outcomes
load_data(up, sh) ==
  IF ~up THEN {Raised("SourceUnavailable")}
  ELSE LET recs == [i \in 1..Len(sh) |-> ParseRow(sh, i)]
       IN IF \E i \in 1..Len(sh) : recs[i].date = DateError
          THEN {Raised("ValueError")}
          ELSE IF \E i \in 1..Len(sh) :
                    recs[i].mi.raised \/ recs[i].gl.raised \/ recs[i].mo.raised
                       \/ recs[i].om.raised
          THEN {Raised("ValueError")}
          ELSE {Returned(ds) : ds \in SortValues(recs)}

\* ------------------------------------------------------------------ metrics
RECURSIVE SumGainLoss(_)
SumGainLoss(ds) == IF ds = <<>> THEN 0 ELSE ds[1].gl.v + SumGainLoss(Tail(ds))

\* idxmax / idxmin: a scan that keeps the first extreme value
RECURSIVE IdxMax(_, _)
IdxMax(ds, k) ==
  IF k = 1 THEN 1
  ELSE LET b == IdxMax(ds, k - 1) IN IF ds[k].gl.v > ds[b].gl.v THEN k ELSE b

RECURSIVE IdxMin(_, _)
IdxMin(ds, k) ==
  IF k = 1 THEN 1
  ELSE LET b == IdxMin(ds, k - 1) IN IF ds[k].gl.v < ds[b].gl.v THEN k ELSE b

NoMetrics == [has |-> FALSE, total_pnl |-> 0, current |-> 0, best |-> 0, worst |-> 0]

\* lines 80-83 on a non-empty frame; best and worst are row positions
ComputeMetrics(ds) ==
  [ has |-> TRUE, total_pnl |-> SumGainLoss(ds), current |-> ds[Len(ds)].om.v,
    best |-> IdxMax(ds, Len(ds)), worst |-> IdxMin(ds, Len(ds)) ]

AllCells == {"c1", "c2", "c3", "c4"}

\* lines 85-88 on a non-empty frame: the cells are built in order, and
\* strftime raises on a NaT date of the best or worst row
ShowMetrics(ds, m) ==
  IF ds[m.best].date.nat THEN [error |-> "ValueError", m |-> m, cells |-> {"c1", "c2"}]
  ELSE IF ds[m.worst].date.nat
       THEN [error |-> "ValueError", m |-> m, cells |-> {"c1", "c2", "c3"}]
       ELSE [error |-> "", m |-> m, cells |-> AllCells]

\* lines 78-88: iloc[-1] (line 81) raises IndexError on an empty frame, before
\* any cell is built
MetricsOutcomeDefaulting(ds) ==
  IF Len(ds) = 0
  THEN [error |-> "", cells |-> AllCells,
        m |-> [has |-> TRUE, total_pnl |-> 0, current |-> 0, best |-> 0, worst |-> 0]]
  ELSE ShowMetrics(ds, ComputeMetrics(ds))
MetricsOutcome(ds) ==
  IF Len(ds) = 0 THEN [error |-> "IndexError", m |-> NoMetrics, cells |-> {}]
  ELSE ShowMetrics(ds, ComputeMetrics(ds))

\* ------------------------------------------------------------------- sheets
Row(d, a) == [date |-> d, mi |-> a[1], gl |-> a[2], mo |-> a[3], om |-> a[4]]

\* date cells: two dates, an empty cell, a day 1900 does not have, and a text
\* that is not day-then-month
DateTexts == { <<"5", " ", "N", "o", "v">>, <<"6", " ", "N", "o", "v">>, <<>>,
               <<"2", "9", " ", "F", "e", "b">>, <<"N", "o", "v", " ", "5">> }

\* the four amount cells of a row: money in, gain/loss, money out, overall
AmountTexts ==
  { << <<>>, <<"-", "2", "0", "0">>, <<"-">>, <<"8", "0", "0">> >>,
    << <<"1", ",", "0", "0", "0">>, <<"5", "0", "0">>, <<"2", "5">>,
       <<"1", ",", "3", "0", "0">> >>,
    << <<"N", "/", "A">>, <<"N", "/", "A">>, <<"a", "b", "c">>,
       <<"1", "3", "0", "0">> >>,
    << <<"1", "0", "0", "0">>, <<"5", "0", "0">>, <<>>, <<"-">> >> }

Rows == { Row(d, a) : d \in DateTexts, a \in AmountTexts }

\* every sheet of at most MaxRows rows
AllSheets == UNION { [1..n -> Rows] : n \in 0..MaxRows }

Nov5 == <<"5", " ", "N", "o", "v">>
Nov6 == <<"6", " ", "N", "o", "v">>
Loss200 == << <<>>, <<"-", "2", "0", "0">>, <<"-">>, <<"8", "0", "0">> >>
Gain500 == << <<"1", ",", "0", "0", "0">>, <<"5", "0", "0">>, <<"2", "5">>,
              <<"1", ",", "3", "0", "0">> >>

\* the sheets the source serves over time in the session model
SampleSheets ==
  { << Row(Nov6, Gain500), Row(Nov5, Loss200) >>,
    << Row(Nov5, Loss200) >> }

\* -------------------------------------------------------------------- cache
\* an entry of the memo: the stored frame, the time it was stored and (for
\* the record) the number of clears that had happened when it was fetched
NoEntry == [has |-> FALSE, data |-> <<>>, at |-> 0, fgen |-> 0]
Entry(ds, t, g) == [has |-> TRUE, data |-> ds, at |-> t, fgen |-> g]

\* ttl=600: an entry is served while less than TTL has passed since it was stored
IsFreshNever(e, t) == FALSE
IsFresh(e, t) == e.has /\ t - e.at < TTL

\* st.cache_data.clear(): the function's cache is replaced by a new, empty one
NewCacheKeeps(old) == old
NewCache(old) == NoEntry

\* a cache object that was replaced lives on while a call that took it before
\* the clear is still in progress; after that nothing refers to it
Referenced(g, cur, pcs, sgens) ==
  g = cur \/ \E s \in Sessions : pcs[s] \in {"lockwait", "fetch"} /\ sgens[s] = g
Collect(cs, cur, pcs, sgens) ==
  [g \in DOMAIN cs |-> IF Referenced(g, cur, pcs, sgens) THEN cs[g] ELSE NoEntry]

\* the compute lock of the cache object session s holds: free when no other
\* session computes for the same cache object
LockFreeAlways(s) == TRUE
LockFree(s) == \A t \in Sessions \ {s} : ~(pc[t] = "fetch" /\ sgen[t] = sgen[s])

\* ------------------------------------------------------------------- bursts
\* fetches done for, and frames returned from, the current cache object since
\* the latest of: a clear, a clock tick, a call that found no other call
\* in progress
EmptyBurst == [n |-> 0, ok |-> 0, ret |-> {}]
InCall(t) == pc[t] \in {"lockwait", "fetch"} /\ sgen[t] = gen
BurstAt(s) == IF \E t \in Sessions \ {s} : InCall(t) THEN burst ELSE EmptyBurst
BurstReturn(b, g, ds) == IF g = gen THEN [b EXCEPT !.ret = @ \cup {ds}] ELSE b
BurstFetch(b, g, good) ==
  IF g = gen THEN [b EXCEPT !.n = @ + 1, !.ok = @ + (IF good THEN 1 ELSE 0)] ELSE b

\* --------------------------------------------------------------------- init
InitCommon ==
  /\ now = 0
  /\ gen = 0
  /\ caches = [g \in 0..MaxRefresh |-> NoEntry]
  /\ pc = [s \in Sessions |-> "idle"]
  /\ sgen = [s \in Sessions |-> -1]
  /\ df = [s \in Sessions |-> NoEntry]
  /\ err = [s \in Sessions |-> ""]
  /\ shown = [s \in Sessions |-> {}]
  /\ footerTs = [s \in Sessions |-> -1]
  /\ metrics = [s \in Sessions |-> NoMetrics]
  /\ via = [s \in Sessions |-> ""]
  /\ burst = EmptyBurst

Init == InitCommon /\ sheet \in SampleSheets /\ srcUp = TRUE

InitLoad == InitCommon /\ sheet \in AllSheets /\ srcUp \in BOOLEAN

\* ------------------------------------------------------------------ actions
\* a new script run of session s starts with an empty page
NewRun(s, at) ==
  /\ pc' = [pc EXCEPT ![s] = at]
  /\ df' = [df EXCEPT ![s] = NoEntry]
  /\ err' = [err EXCEPT ![s] = ""]
  /\ shown' = [shown EXCEPT ![s] = {}]
  /\ footerTs' = [footerTs EXCEPT ![s] = -1]
  /\ metrics' = [metrics EXCEPT ![s] = NoMetrics]
  /\ via' = [via EXCEPT ![s] = ""]

\* the page is opened or rerun with the button not pressed: line 15 is false
Visit(s) ==
  /\ pc[s] = "idle"
  /\ NewRun(s, "load")
  /\ UNCHANGED <<now, sheet, srcUp, gen, caches, sgen, burst>>

\* the button is pressed: the run enters the body of line 15
Press(s) ==
  /\ pc[s] = "idle"
  /\ gen + Cardinality({t \in Sessions : pc[t] = "clear"}) < MaxRefresh
  /\ NewRun(s, "clear")
  /\ UNCHANGED <<now, sheet, srcUp, gen, caches, sgen, burst>>

\* lines 16-17: st.cache_data.clear(), then st.success(...)
ClearAndSuccess(s) ==
  /\ pc[s] = "clear"
  /\ gen' = gen + 1
  /\ pc' = [pc EXCEPT ![s] = "rerun"]
  /\ caches' = Collect([caches EXCEPT ![gen + 1] = NewCache(caches[gen])],
                       gen + 1, pc', sgen)
  /\ burst' = EmptyBurst
  /\ shown' = [shown EXCEPT ![s] = @ \cup {"success"}]
  /\ UNCHANGED <<now, sheet, srcUp, sgen, df, err, footerTs, metrics, via>>

\* line 18: st.rerun() ends the run and starts the script again, button unpressed
Rerun(s) ==
  /\ pc[s] = "rerun"
  /\ NewRun(s, "load")
  /\ UNCHANGED <<now, sheet, srcUp, gen, caches, sgen, burst>>

\* line 36, the call of the memoised load_data: take the function's current
\* cache object and read it
CacheRead(s) ==
  /\ pc[s] = "load"
  /\ sgen' = [sgen EXCEPT ![s] = gen]
  /\ IF IsFresh(caches[gen], now)
     THEN /\ df' = [df EXCEPT ![s] = caches[gen]]
          /\ via' = [via EXCEPT ![s] = "hit"]
          /\ pc' = [pc EXCEPT ![s] = "chart"]
          /\ burst' = BurstReturn(BurstAt(s), gen, caches[gen].data)
     ELSE /\ df' = df
          /\ via' = via
          /\ pc' = [pc EXCEPT ![s] = "lockwait"]
          /\ burst' = BurstAt(s)
  /\ UNCHANGED <<now, sheet, srcUp, gen, caches, err, shown, footerTs, metrics>>

\* cache miss: take the compute lock and read the cache again under it
Acquire(s) ==
  /\ pc[s] = "lockwait"
  /\ LockFree(s)
  /\ IF IsFresh(caches[sgen[s]], now)
     THEN /\ df' = [df EXCEPT ![s] = caches[sgen[s]]]
          /\ via' = [via EXCEPT ![s] = "hit under lock"]
          /\ pc' = [pc EXCEPT ![s] = "chart"]
          /\ caches' = Collect(caches, gen, pc', sgen)
          /\ burst' = BurstReturn(burst, sgen[s], caches[sgen[s]].data)
     ELSE /\ df' = df
          /\ via' = via
          /\ pc' = [pc EXCEPT ![s] = "fetch"]
          /\ caches' = caches
          /\ burst' = burst
  /\ UNCHANGED <<now, sheet, srcUp, gen, sgen, err, shown, footerTs, metrics>>

\* lines 23-34 under the lock: the body of load_data runs; a returned frame is
\* written to the session's cache object, an exception leaves it untouched
FetchDone(s) ==
  /\ pc[s] = "fetch"
  /\ sgen[s] = gen => burst.n < MaxBurst
  /\ \E out \in load_data(srcUp, sheet) :
       IF out.ok
       THEN /\ pc' = [pc EXCEPT ![s] = "chart"]
            /\ sgen' = sgen
            /\ caches' = Collect([caches EXCEPT ![sgen[s]] = Entry(out.data, now, gen)],
                                 gen, pc', sgen)
            /\ df' = [df EXCEPT ![s] = Entry(out.data, now, gen)]
            /\ via' = [via EXCEPT ![s] = "fetch"]
            /\ err' = err
            /\ burst' = BurstReturn(BurstFetch(burst, sgen[s], TRUE), sgen[s], out.data)
       ELSE /\ pc' = [pc EXCEPT ![s] = "idle"]
            /\ sgen' = [sgen EXCEPT ![s] = -1]
            /\ caches' = Collect(caches, gen, pc', sgen)
            /\ df' = df
            /\ via' = via
            /\ err' = [err EXCEPT ![s] = out.error]
            /\ burst' = BurstFetch(burst, sgen[s], FALSE)
  /\ UNCHANGED <<now, sheet, srcUp, gen, shown, footerTs, metrics>>

\* lines 39-88: the chart, then the four metrics; an exception ends the run
ChartAndMetrics(s) ==
  /\ pc[s] = "chart"
  /\ LET out == MetricsOutcome(df[s].data)
     IN /\ metrics' = [metrics EXCEPT ![s] = out.m]
        /\ shown' = [shown EXCEPT ![s] = @ \cup {"chart"} \cup out.cells]
        /\ err' = [err EXCEPT ![s] = out.error]
        /\ pc' = [pc EXCEPT ![s] = IF out.error = "" THEN "footer" ELSE "idle"]
  /\ via' = [via EXCEPT ![s] = ""]
  /\ sgen' = [sgen EXCEPT ![s] = -1]
  /\ UNCHANGED <<now, sheet, srcUp, gen, caches, df, footerTs, burst>>

\* line 103: the caption prints datetime.now()
CaptionTime(s) == now

\* lines 91-103: the expander and the footer caption; the run ends
Footer(s) ==
  /\ pc[s] = "footer"
  /\ shown' = [shown EXCEPT ![s] = @ \cup {"details", "footer"}]
  /\ footerTs' = [footerTs EXCEPT ![s] = CaptionTime(s)]
  /\ pc' = [pc EXCEPT ![s] = "idle"]
  /\ UNCHANGED <<now, sheet, srcUp, gen, caches, sgen, df, err, metrics, burst, via>>

\* time passes
Tick ==
  /\ now + TickStep <= MaxTime
  /\ now' = now + TickStep
  /\ burst' = EmptyBurst
  /\ UNCHANGED <<sheet, srcUp, gen, caches, pc, sgen, df, err, shown, footerTs,
                 metrics, via>>

\* the owner edits the spreadsheet
EditSheet ==
  /\ sheet' \in SampleSheets \ {sheet}
  /\ UNCHANGED <<now, srcUp, gen, caches, pc, sgen, df, err, shown, footerTs,
                 metrics, burst, via>>

\* the source becomes unreachable, or reachable again
Outage ==
  /\ srcUp' = ~srcUp
  /\ UNCHANGED <<now, sheet, gen, caches, pc, sgen, df, err, shown, footerTs,
                 metrics, burst, via>>

Next ==
  \/ \E s \in Sessions :
       \/ Visit(s) \/ Press(s) \/ ClearAndSuccess(s) \/ Rerun(s)
       \/ CacheRead(s) \/ Acquire(s) \/ FetchDone(s)
       \/ ChartAndMetrics(s) \/ Footer(s)
  \/ Tick \/ EditSheet \/ Outage

Spec == Init /\ [][Next]_vars

\* one run of the script on any sheet
FirstVisit(s) == ~df[s].has /\ err[s] = "" /\ Visit(s)

NextLoad ==
  \E s \in {"s1"} :
     \/ FirstVisit(s) \/ CacheRead(s) \/ Acquire(s) \/ FetchDone(s)
     \/ ChartAndMetrics(s) \/ Footer(s)

SpecLoad == InitLoad /\ [][NextLoad]_vars

\* =================================================================== claims

\* ---- C1
\* C1 witness: a session was served from the cache at a later time than the
\* entry was stored (the frame was returned after the clock last moved), with
\* no fetch since
C1_Witness ==
  \E s \in Sessions : via[s] = "hit" /\ pc[s] = "chart" /\ df[s].has
                      /\ df[s].at < now /\ burst.n = 0 /\ burst.ret = {df[s].data}

\* C1: a call of load_data() made less than TTL after the entry of the current
\* cache was stored (so with no clear since) returns the stored frame, does
\* no upstream fetch and leaves the cache as it is; the call that filled the
\* cache returned the very frame it stored; and no fetch is in progress for a
\* cache object that holds an entry younger than TTL.
C1_CacheHitWithinTtl ==
  /\ [][\A s \in Sessions :
          /\ (pc[s] = "load" /\ pc'[s] # "load"
                /\ caches[gen].has /\ now - caches[gen].at < TTL)
             => /\ pc'[s] = "chart"
                /\ df'[s].has /\ df'[s].data = caches[gen].data
                /\ burst'.n <= burst.n
                /\ caches' = caches
          /\ (pc[s] = "fetch" /\ pc'[s] = "chart" /\ sgen[s] = gen)
             => caches'[gen] = df'[s]]_vars
  /\ [](\A s \in Sessions :
          pc[s] = "fetch"
            => ~(caches[sgen[s]].has /\ now - caches[sgen[s]].at < TTL))

CompleteFrames ==
  UNION { SortValues([i \in 1..Len(sh) |-> ParseRow(sh, i)]) : sh \in SampleSheets }

C4_SortedAndStable ==
  \A s \in Sessions : df[s].has =>
     \A i, j \in 1..Len(df[s].data) :
        (i < j /\ ~df[s].data[i].date.nat /\ ~df[s].data[j].date.nat)
           => /\ df[s].data[i].date.ord <= df[s].data[j].date.ord
              /\ (df[s].data[i].date.ord = df[s].data[j].date.ord
                    => df[s].data[i].src < df[s].data[j].src)

\* ---- C5
\* the text is a day number 1..31, a space and a month abbreviation
MatchesDayMonth(t) ==
  \E nd \in 1..2 :
     /\ Len(t) = nd + 4
     /\ \A i \in 1..nd : t[i] \in Digits
     /\ DigitsValue(SubSeq(t, 1, nd)) \in 1..31
     /\ t[nd + 1] = " "
     /\ MonthName(SubSeq(t, nd + 2, Len(t))) # ""

\* the call of load_data by s has ended with an exception / with a frame
LoadRaised(s) == pc[s] = "idle" /\ err[s] # "" /\ ~df[s].has
LoadReturned(s) == pc[s] = "chart" /\ df[s].has

\* C5 as stated: the load fails, returning and caching nothing, exactly when
\* the fetch fails or some date text does not match day and month; otherwise
\* it returns every source row, ascending by date
C5_AllOrNothing ==
  \A s \in Sessions :
     (LoadRaised(s) \/ LoadReturned(s)) =>
        /\ LoadRaised(s) <=>
              (~srcUp \/ \E i \in 1..Len(sheet) : ~MatchesDayMonth(sheet[i].date))
        /\ LoadRaised(s) => \A g \in 0..MaxRefresh : ~caches[g].has
        /\ LoadReturned(s) =>
              /\ Len(df[s].data) = Len(sheet)
              /\ \A i \in 1..Len(sheet) : \E k \in 1..Len(sheet) : df[s].data[k].src = i
              /\ \A i, j \in 1..Len(sheet) :
                    i < j => DateLe(df[s].data[i].date, df[s].data[j].date)

\* ---- C6
\* with the commas taken out, the text is an optional sign and digits
LooksNumeric(t) ==
  LET u == SelectSeq(t, LAMBDA c : c # ",")
  IN /\ u # <<>>
     /\ \/ \A i \in 1..Len(u) : u[i] \in Digits
        \/ /\ u[1] \in {"-", "+"} /\ Len(u) > 1
           /\ \A i \in 2..Len(u) : u[i] \in Digits

AmountColumns == {"mi", "gl", "mo", "om"}

\* C6 witness: a frame was loaded from a sheet with an "N/A" gain/loss, an
\* empty money in and a "-" money out, each of which is 0 in the frame
C6_Witness ==
  \E s \in Sessions : df[s].has /\ \E k \in 1..Len(df[s].data) :
     LET r == df[s].data[k] IN
        /\ sheet[r.src].gl = <<"N", "/", "A">> /\ r.gl = Num(0)
        /\ \E j \in 1..Len(df[s].data) :
              /\ sheet[df[s].data[j].src].mi = <<>> /\ df[s].data[j].mi = Num(0)
              /\ sheet[df[s].data[j].src].mo = <<"-">> /\ df[s].data[j].mo = Num(0)

\* C6: in every loaded frame each of the four amount fields of each record is
\* a number (never missing); it is exactly 0 when the source text is not
\* numeric once the commas are removed; and no amount text makes the load fail.
C6_UnparseableIsZero ==
  /\ \A s \in Sessions : df[s].has =>
        \A k \in 1..Len(df[s].data) : \A c \in AmountColumns :
           LET r == df[s].data[k] IN
              /\ ~r[c].nan
              /\ r[c].v \in Int
              /\ ~LooksNumeric(sheet[r.src][c]) => r[c].v = 0
  /\ \A s \in Sessions :
        (LoadRaised(s) /\ srcUp)
           => \E i \in 1..Len(sheet) :
                 sheet[i].date \notin NaValues /\ Strptime(sheet[i].date) = DateError

\* ---- C7
RECURSIVE RefSum(_, _)
RefSum(ds, k) == IF k = 0 THEN 0 ELSE RefSum(ds, k - 1) + ds[k].gl.v

\* C7 as stated: the metrics computed on a non-empty frame are the sum of
\* gain/loss, the overall money of a record with the latest date, and the
\* first record with the largest / smallest gain/loss
C7_MetricsMatchReference ==
  \A s \in Sessions : metrics[s].has =>
     LET ds == df[s].data
         m  == metrics[s]
     IN /\ m.total_pnl = RefSum(ds, Len(ds))
        /\ \E i \in 1..Len(ds) :
              /\ ~ds[i].date.nat
              /\ \A j \in 1..Len(ds) : ~ds[j].date.nat => ds[j].date.ord <= ds[i].date.ord
              /\ m.current = ds[i].om.v
        /\ m.best \in 1..Len(ds) /\ m.worst \in 1..Len(ds)
        /\ \A j \in 1..Len(ds) : ds[j].gl.v <= ds[m.best].gl.v
        /\ \A j \in 1..(m.best - 1) : ds[j].gl.v < ds[m.best].gl.v
        /\ \A j \in 1..Len(ds) : ds[j].gl.v >= ds[m.worst].gl.v
        /\ \A j \in 1..(m.worst - 1) : ds[j].gl.v > ds[m.worst].gl.v

\* ---- C8
\* C8 witness: a run on an empty frame has ended
C8_Witness ==
  \E s \in Sessions : df[s].has /\ Len(df[s].data) = 0 /\ pc[s] = "idle"
                      /\ "chart" \in shown[s]

\* C8: on a frame of zero records the metrics step ends the run with an
\* exception shown to the user: no metric value is computed, no metric cell
\* and no footer is shown.
C8_EmptyFrameRaises ==
  \A s \in Sessions : (df[s].has /\ Len(df[s].data) = 0) =>
     /\ ~metrics[s].has
     /\ shown[s] \cap (AllCells \cup {"footer"}) = {}
     /\ pc[s] \in {"chart", "idle"}
     /\ pc[s] = "idle" => err[s] = "IndexError"

\* ---- C9
\* C9 as stated: the success message is shown only when the reload that the
\* refresh triggers has completed successfully
C9_SuccessOnlyAfterReload ==
  \A s \in Sessions : "success" \in shown[s] => df[s].has

\* ---- C10
\* C10 as stated: the time in the footer caption is the time at which the
\* frame on the page was fetched
C10_FooterShowsFetchTime ==
  \A s \in Sessions : "footer" \in shown[s] => footerTs[s] = df[s].at

====
